---- MODULE Spec2Model ----
(***************************************************************************)
(* Gold-AR: tracking sessions (useFaceMesh, useHandTracking with MediaPipe *)
(* Hands, useHandTracking with the tasks-vision HandLandmarker) modelled   *)
(* as state machines.  Every variable is a function over Sessions so that  *)
(* one module describes the three hooks; `active` says which hook          *)
(* instances exist in a behaviour.                                         *)
(***************************************************************************)
EXTENDS Integers, Sequences, FiniteSets, TLC

(* ------------------------------ bounds -------------------------------- *)
\* number of distinct landmark-set values the detector may report
NumLandmarkSets == 2
\* number of send() calls that may be awaiting their result at once
MaxInflight == 1

(* ------------------------- program constants -------------------------- *)
\* setOptions({maxNumFaces: 1})
MaxNumFaces == 1
\* setOptions({maxNumHands: 2}) / createFromOptions({numHands: 2})
MaxNumHands == 2

Sessions == {"face", "hands", "landmarker"}
\* the two hooks that pump frames with @mediapipe/camera_utils Camera
CameraKinds == {"face", "hands"}

LandmarkSets == 1 .. NumLandmarkSets
\* identities of Camera objects / requestAnimationFrame handles; 0 is null
Handles == 1 .. (MaxInflight + 2)

\* numbers are fixed-point: One stands for 1.0
One == 10 * 100

NoError == "null"
FailedToLoad == "Failed to load tracking model"
NotInitialized == "not initialized"

VARIABLES
    active,             \* the hook instances that are mounted
    initPc,             \* position of the async init function of the mount effect
    isLoading, error, detections, isDetecting,   \* useState values
    modelRef,           \* faceMeshRef / handsRef / handLandmarkerRef
    cameraRef,          \* cameraRef.current (Camera id, 0 = null)
    animationFrameRef,  \* animationFrameRef.current (handle, 0 = null)
    videoElementRef,    \* videoElementRef.current # null
    loops,              \* live frame-feeding loops: started Cameras, pending rAF requests
    inflight,           \* Cameras whose onFrame awaits send()
    lastOp, prevOp,     \* per session: the last operation on it, and the one before
    pre,                \* per session: its observable state before the last operation
    lastBatch,          \* per session: the landmark sets of the last detection result
    \* ---- ARView ----
    product,            \* the product prop: type, baseScale, offsetX, offsetY
    geom,               \* the landmark points each landmark-set value stands for
    videoElement,       \* useState videoElement # null
    videoDimensions,    \* useState videoDimensions
    overlays,           \* ring / necklace / leftEarring / rightEarring transform states
    effectPending,      \* a dependency of the overlay effect changed since it last ran
    crashed,            \* the overlay effect threw
    lastEffect,         \* the branch the overlay effect took when it last ran
    camera,             \* useCamera inside CameraFeed: its state; tracks: the stream in
                        \* state has live tracks; leaked: a stream held nowhere has
    mounted,            \* the component that owns the hooks (ARView with CameraFeed) is mounted
    notifyPending,      \* a dependency of CameraFeed's video-ready effect changed since it ran
    \* ---- geometry engine called on its own ----
    input,              \* the arguments
    output              \* the function applied last and what it returned

sessionVars == <<active, initPc, isLoading, error, detections, isDetecting, modelRef,
                 cameraRef, animationFrameRef, videoElementRef, loops, inflight,
                 lastOp, prevOp, pre, lastBatch>>

arVars == <<product, geom, videoElement, videoDimensions, overlays, effectPending,
            crashed, lastEffect, camera, mounted, notifyPending>>

geoVars == <<input, output>>

vars == <<sessionVars, arVars, geoVars>>

stateVars == <<isLoading, error, detections, isDetecting>>
refVars == <<modelRef, cameraRef, animationFrameRef, videoElementRef>>

(* --------------------------- detector output -------------------------- *)
MaxSets(s) == IF s = "face" THEN MaxNumFaces ELSE MaxNumHands

SeqsUpTo(S, n) == UNION {[1 .. k -> S] : k \in 0 .. n}

\* the handedness labels of a result: a label that is present is kept as it is
\* ("Left" stands for either label), a missing one ("none") defaults to "Right"
Labels == {"Left", "none"}

\* what the detector hands to the result handler: the landmark list may be
\* missing (undefined), and a handedness label may be missing per hand
Results(s) ==
    {[defined |-> FALSE, landmarks |-> <<>>, handedness |-> <<>>]} \cup
    {[defined |-> TRUE, landmarks |-> l, handedness |-> h] :
        <<l, h>> \in {p \in SeqsUpTo(LandmarkSets, MaxSets(s))
                          \X SeqsUpTo(Labels, MaxSets(s)) :
                      Len(p[1]) = Len(p[2])}}

\* the landmark sets a result carries
ResultSets(r) == IF r.defined THEN r.landmarks ELSE <<>>

\* results.multiFaceLandmarks.map(...) / results.multiHandLandmarks.map(...)
DetectedList(s, r) ==
    IF s = "face"
    THEN [i \in 1 .. Len(r.landmarks) |-> [landmarks |-> r.landmarks[i]]]
    ELSE [i \in 1 .. Len(r.landmarks) |->
            [landmarks |-> r.landmarks[i],
             handedness |-> IF r.handedness[i] = "none" THEN "Right"
                            ELSE r.handedness[i]]]

\* variant: isDetecting follows the presence of the landmark list, not its length
OnResultsDefined(s, r) ==
    /\ detections' = [detections EXCEPT ![s] =
                          IF r.defined THEN DetectedList(s, r) ELSE <<>>]
    /\ isDetecting' = [isDetecting EXCEPT ![s] = r.defined]

\* variant: an empty result is ignored, the previous detections are carried over
OnResultsDebounced(s, r) ==
    IF r.defined /\ Len(r.landmarks) > 0
    THEN /\ detections' = [detections EXCEPT ![s] = DetectedList(s, r)]
         /\ isDetecting' = [isDetecting EXCEPT ![s] = TRUE]
    ELSE UNCHANGED <<detections, isDetecting>>

\* the body of the result handler: the new values of detections, isDetecting
OnResults(s, r) ==
    IF r.defined /\ Len(r.landmarks) > 0
    THEN /\ detections' = [detections EXCEPT ![s] = DetectedList(s, r)]
         /\ isDetecting' = [isDetecting EXCEPT ![s] = TRUE]
    ELSE /\ detections' = [detections EXCEPT ![s] = <<>>]
         /\ isDetecting' = [isDetecting EXCEPT ![s] = FALSE]

(* ------------------------------ handles ------------------------------- *)
FreshHandles(s) ==
    Handles \ (loops[s] \cup inflight[s] \cup {cameraRef[s], animationFrameRef[s]})

Fresh(s) == CHOOSE h \in FreshHandles(s) : \A g \in FreshHandles(s) : h <= g

\* what a client of the hook can observe of session s: the values the hook
\* returns, and the frame-feeding loops that are live
Obs(s) ==
    [isLoading |-> isLoading[s], error |-> error[s], detections |-> detections[s],
     isDetecting |-> isDetecting[s], loops |-> loops[s]]

Note(op, s, sets) ==
    /\ lastOp' = [lastOp EXCEPT ![s] = op]
    /\ prevOp' = [prevOp EXCEPT ![s] = lastOp[s]]
    /\ pre' = [pre EXCEPT ![s] = Obs(s)]
    /\ lastBatch' = [lastBatch EXCEPT ![s] = sets]

(* ------------------------------- Init --------------------------------- *)
\* every hook instance right after its first render
InitSessions ==
    /\ initPc = [s \in Sessions |-> "pending"]
    /\ isLoading = [s \in Sessions |-> TRUE]
    /\ error = [s \in Sessions |-> NoError]
    /\ detections = [s \in Sessions |-> <<>>]
    /\ isDetecting = [s \in Sessions |-> FALSE]
    /\ modelRef = [s \in Sessions |-> "null"]
    /\ cameraRef = [s \in Sessions |-> 0]
    /\ animationFrameRef = [s \in Sessions |-> 0]
    /\ videoElementRef = [s \in Sessions |-> FALSE]
    /\ loops = [s \in Sessions |-> {}]
    /\ inflight = [s \in Sessions |-> {}]
    /\ lastOp = [s \in Sessions |-> "mount"]
    /\ prevOp = [s \in Sessions |-> "mount"]
    /\ pre = [s \in Sessions |->
                [isLoading |-> TRUE, error |-> NoError, detections |-> <<>>,
                 isDetecting |-> FALSE, loops |-> {}]]
    /\ lastBatch = [s \in Sessions |-> <<>>]

\* useState initial value of the four overlay transforms
InitialTransform == [x |-> 0, y |-> 0, scale |-> One, rotation |-> 0, visible |-> FALSE]

\* variant: one transform state shared by both earrings
SlotsSingleEarring == {"ring", "necklace", "earring"}

Slots == {"ring", "necklace", "leftEarring", "rightEarring"}

NoProduct == [type |-> "none", baseScale |-> 0, offsetX |-> 0, offsetY |-> 0]

\* useCamera's initial useState values; no getUserMedia call made yet
InitialCamera ==
    [pc |-> "idle", isLoading |-> FALSE, error |-> NoError, hasPermission |-> FALSE,
     stream |-> FALSE, tracks |-> FALSE, leaked |-> FALSE]

\* ARView right after its first render
InitOverlay ==
    /\ videoElement = FALSE
    /\ videoDimensions = [width |-> 0, height |-> 0]
    /\ overlays = [k \in Slots |-> InitialTransform]
    /\ crashed = FALSE
    /\ lastEffect = "none"
    /\ camera = InitialCamera
    /\ mounted = TRUE

\* no geometry call made
NoInput == [p1 |-> [x |-> 0, y |-> 0], p2 |-> [x |-> 0, y |-> 0],
            width |-> 0, height |-> 0, radians |-> 0]

NoOutput == [fn |-> "none", value |-> 0]

InitGeometry == input = NoInput /\ output = NoOutput

\* one hook instance on its own, used by an arbitrary caller
Init ==
    /\ active \in {{s} : s \in Sessions}
    /\ InitSessions
    /\ product = NoProduct
    /\ geom = [l \in LandmarkSets |-> "A"]
    /\ InitOverlay
    /\ effectPending = FALSE
    /\ notifyPending = FALSE
    /\ InitGeometry

(* --------------------------- initialization --------------------------- *)
\* the try block of initFaceMesh / initHands / initHandLandmarker ran through
InitSucceed(s) ==
    /\ s \in active
    /\ initPc[s] = "pending"
    /\ initPc' = [initPc EXCEPT ![s] = "ok"]
    /\ modelRef' = [modelRef EXCEPT ![s] = "set"]
    /\ isLoading' = [isLoading EXCEPT ![s] = FALSE]
    /\ Note("initOk", s, <<>>)
    /\ UNCHANGED <<active, error, detections, isDetecting, cameraRef,
                   animationFrameRef, videoElementRef, loops, inflight>>

\* variant: the catch block only logs, without setError
InitFailSilent(s) ==
    /\ s \in active
    /\ initPc[s] = "pending"
    /\ initPc' = [initPc EXCEPT ![s] = "failed"]
    /\ isLoading' = [isLoading EXCEPT ![s] = FALSE]
    /\ Note("initFail", s, <<>>)
    /\ UNCHANGED <<active, error, detections, isDetecting, refVars, loops, inflight>>

\* variant: the catch block sets the error but leaves isLoading as it is
InitFailKeepsLoading(s) ==
    /\ s \in active
    /\ initPc[s] = "pending"
    /\ initPc' = [initPc EXCEPT ![s] = "failed"]
    /\ error' = [error EXCEPT ![s] = FailedToLoad]
    /\ Note("initFail", s, <<>>)
    /\ UNCHANGED <<active, isLoading, detections, isDetecting, refVars, loops, inflight>>

\* the constructor or an awaited load threw: the catch block
InitFail(s) ==
    /\ s \in active
    /\ initPc[s] = "pending"
    /\ initPc' = [initPc EXCEPT ![s] = "failed"]
    /\ error' = [error EXCEPT ![s] = FailedToLoad]
    /\ isLoading' = [isLoading EXCEPT ![s] = FALSE]
    /\ Note("initFail", s, <<>>)
    /\ UNCHANGED <<active, detections, isDetecting, refVars, loops, inflight>>

\* initFaceMesh and initHands contain no await: they complete inside the mount
\* effect, before any caller can use the hook.  initHandLandmarker awaits twice.
Callable(s) == s \in CameraKinds => initPc[s] # "pending"

\* the part of startTracking after the guard: release the loop the handle
\* names, start a new one, store its handle
StartLoop(s) ==
    IF s \in CameraKinds
    THEN /\ loops' = [loops EXCEPT ![s] = (@ \ {cameraRef[s]}) \cup {Fresh(s)}]
         /\ cameraRef' = [cameraRef EXCEPT ![s] = Fresh(s)]
         /\ UNCHANGED <<animationFrameRef, videoElementRef>>
    ELSE /\ videoElementRef' = [videoElementRef EXCEPT ![s] = TRUE]
         /\ loops' = [loops EXCEPT ![s] = (@ \ {animationFrameRef[s]}) \cup {Fresh(s)}]
         /\ animationFrameRef' = [animationFrameRef EXCEPT ![s] = Fresh(s)]
         /\ UNCHANGED cameraRef

StartOp(s) == IF cameraRef[s] # 0 \/ animationFrameRef[s] # 0 THEN "restart" ELSE "start"

\* variant: the previous Camera / animation-frame request is not released
StartTrackingNoRelease(s) ==
    /\ s \in active
    /\ Callable(s)
    /\ FreshHandles(s) # {}
    /\ IF modelRef[s] = "null"
       THEN /\ error' = [error EXCEPT ![s] = NotInitialized]
            /\ Note("startUninit", s, <<>>)
            /\ UNCHANGED <<cameraRef, animationFrameRef, videoElementRef, loops>>
       ELSE /\ loops' = [loops EXCEPT ![s] = @ \cup {Fresh(s)}]
            /\ IF s \in CameraKinds
               THEN /\ cameraRef' = [cameraRef EXCEPT ![s] = Fresh(s)]
                    /\ UNCHANGED <<animationFrameRef, videoElementRef>>
               ELSE /\ videoElementRef' = [videoElementRef EXCEPT ![s] = TRUE]
                    /\ animationFrameRef' = [animationFrameRef EXCEPT ![s] = Fresh(s)]
                    /\ UNCHANGED cameraRef
            /\ Note(StartOp(s), s, <<>>)
            /\ UNCHANGED error
    /\ UNCHANGED <<active, initPc, isLoading, detections, isDetecting, modelRef, inflight>>

\* variant: the guard sets the error but the return is missing
StartTrackingNoReturn(s) ==
    /\ s \in active
    /\ Callable(s)
    /\ FreshHandles(s) # {}
    /\ IF modelRef[s] = "null"
       THEN /\ error' = [error EXCEPT ![s] = NotInitialized]
            /\ Note("startUninit", s, <<>>)
       ELSE /\ Note(StartOp(s), s, <<>>)
            /\ UNCHANGED error
    /\ StartLoop(s)
    /\ UNCHANGED <<active, initPc, isLoading, detections, isDetecting, modelRef, inflight>>

(* ----------------------------- startTracking -------------------------- *)
StartTracking(s) ==
    /\ s \in active
    /\ Callable(s)
    /\ FreshHandles(s) # {}
    /\ IF modelRef[s] = "null"
       THEN /\ error' = [error EXCEPT ![s] = NotInitialized]
            /\ Note("startUninit", s, <<>>)
            /\ UNCHANGED <<cameraRef, animationFrameRef, videoElementRef, loops>>
       ELSE /\ StartLoop(s)
            /\ Note(StartOp(s), s, <<>>)
            /\ UNCHANGED error
    /\ UNCHANGED <<active, initPc, isLoading, detections, isDetecting, modelRef, inflight>>

(* ----------------------------- stopTracking --------------------------- *)
\* the release part of stopTracking
StopLoop(s) ==
    IF s \in CameraKinds
    THEN /\ loops' = [loops EXCEPT ![s] = @ \ {cameraRef[s]}]
         /\ cameraRef' = [cameraRef EXCEPT ![s] = 0]
         /\ UNCHANGED <<animationFrameRef, videoElementRef>>
    ELSE /\ loops' = [loops EXCEPT ![s] = @ \ {animationFrameRef[s]}]
         /\ animationFrameRef' = [animationFrameRef EXCEPT ![s] = 0]
         /\ videoElementRef' = [videoElementRef EXCEPT ![s] = FALSE]
         /\ UNCHANGED cameraRef

\* variant: the detections are cleared only inside the `if` that finds a handle
StopTrackingGuardedClear(s) ==
    /\ s \in active
    /\ Callable(s)
    /\ StopLoop(s)
    /\ IF cameraRef[s] # 0 \/ animationFrameRef[s] # 0
       THEN /\ detections' = [detections EXCEPT ![s] = <<>>]
            /\ isDetecting' = [isDetecting EXCEPT ![s] = FALSE]
       ELSE UNCHANGED <<detections, isDetecting>>
    /\ Note("stop", s, <<>>)
    /\ UNCHANGED <<active, initPc, isLoading, error, modelRef, inflight>>

\* variant: stopping a session that has no handle is reported as an error
StopTrackingStrict(s) ==
    /\ s \in active
    /\ Callable(s)
    /\ StopLoop(s)
    /\ error' = [error EXCEPT ![s] =
                    IF cameraRef[s] = 0 /\ animationFrameRef[s] = 0
                    THEN NotInitialized ELSE @]
    /\ detections' = [detections EXCEPT ![s] = <<>>]
    /\ isDetecting' = [isDetecting EXCEPT ![s] = FALSE]
    /\ Note("stop", s, <<>>)
    /\ UNCHANGED <<active, initPc, isLoading, modelRef, inflight>>

StopTracking(s) ==
    /\ s \in active
    /\ Callable(s)
    /\ StopLoop(s)
    /\ detections' = [detections EXCEPT ![s] = <<>>]
    /\ isDetecting' = [isDetecting EXCEPT ![s] = FALSE]
    /\ Note("stop", s, <<>>)
    /\ UNCHANGED <<active, initPc, isLoading, error, modelRef, inflight>>

(* ------------------------- Camera frame pump -------------------------- *)
\* a started Camera calls onFrame, which awaits send(); the Camera calls
\* onFrame again only after the promise it returned has settled
OnFrame(s) ==
    /\ s \in active
    /\ s \in CameraKinds
    /\ Cardinality(inflight[s]) < MaxInflight
    /\ \E c \in loops[s] \ inflight[s] :
          /\ inflight' = [inflight EXCEPT ![s] =
                              IF modelRef[s] = "set" THEN @ \cup {c} ELSE @]
          /\ Note("feed", s, <<>>)
    /\ UNCHANGED <<active, initPc, stateVars, refVars, loops>>

\* send() completes: the detector calls the handler registered with onResults
SendResolve(s) ==
    /\ s \in active
    /\ s \in CameraKinds
    /\ \E c \in inflight[s], r \in Results(s) :
          /\ inflight' = [inflight EXCEPT ![s] = @ \ {c}]
          /\ OnResults(s, r)
          /\ Note("results", s, ResultSets(r))
    /\ UNCHANGED <<active, initPc, isLoading, error, refVars, loops>>

\* send() rejects.  useHandTracking catches it inside onFrame.  useFaceMesh
\* does not: the rejection leaves onFrame and reaches the Camera utility,
\* which may or may not go on calling onFrame.
SendReject(s) ==
    /\ s \in active
    /\ s \in CameraKinds
    /\ \E c \in inflight[s] :
          /\ inflight' = [inflight EXCEPT ![s] = @ \ {c}]
          /\ IF s = "hands"
             THEN UNCHANGED loops
             ELSE \/ UNCHANGED loops
                  \/ loops' = [loops EXCEPT ![s] = @ \ {c}]
    /\ Note("frameFail", s, <<>>)
    /\ UNCHANGED <<active, initPc, stateVars, refVars>>

(* ----------------------- requestAnimationFrame loop ------------------- *)
\* a pending animation-frame request fires and runs processFrame; every path
\* through it ends by requesting the next frame and storing the handle
NextHandle(s, h) ==
    CHOOSE g \in Handles \ (loops[s] \cup {h}) :
        \A k \in Handles \ (loops[s] \cup {h}) : g <= k

\* variant: the early return of a skipped frame requests the next frame
\* without storing its handle
ProcessFrameSkipUnstored(s) ==
    /\ s \in active
    /\ s = "landmarker"
    /\ \E h \in loops[s] :
          /\ loops' = [loops EXCEPT ![s] = (@ \ {h}) \cup {NextHandle(s, h)}]
          /\ \E ready \in BOOLEAN :
                IF ~videoElementRef[s] \/ modelRef[s] = "null" \/ ~ready
                THEN /\ Note("skip", s, <<>>)
                     /\ UNCHANGED <<detections, isDetecting, animationFrameRef>>
                ELSE /\ animationFrameRef' =
                            [animationFrameRef EXCEPT ![s] = NextHandle(s, h)]
                     /\ \/ /\ Note("frameFail", s, <<>>)
                           /\ UNCHANGED <<detections, isDetecting>>
                        \/ \E r \in Results(s) :
                             /\ OnResults(s, r)
                             /\ Note("results", s, ResultSets(r))
    /\ UNCHANGED <<active, initPc, isLoading, error, modelRef, cameraRef,
                   videoElementRef, inflight>>

\* variant: a skipped frame clears the detections
ProcessFrameSkipClears(s) ==
    /\ s \in active
    /\ s = "landmarker"
    /\ \E h \in loops[s] :
          /\ loops' = [loops EXCEPT ![s] = (@ \ {h}) \cup {NextHandle(s, h)}]
          /\ animationFrameRef' = [animationFrameRef EXCEPT ![s] = NextHandle(s, h)]
          /\ \E ready \in BOOLEAN :
                IF ~videoElementRef[s] \/ modelRef[s] = "null" \/ ~ready
                THEN /\ Note("skip", s, <<>>)
                     /\ detections' = [detections EXCEPT ![s] = <<>>]
                     /\ isDetecting' = [isDetecting EXCEPT ![s] = FALSE]
                ELSE \/ /\ Note("frameFail", s, <<>>)
                        /\ UNCHANGED <<detections, isDetecting>>
                     \/ \E r \in Results(s) :
                          /\ OnResults(s, r)
                          /\ Note("results", s, ResultSets(r))
    /\ UNCHANGED <<active, initPc, isLoading, error, modelRef, cameraRef,
                   videoElementRef, inflight>>

ProcessFrame(s) ==
    /\ s \in active
    /\ s = "landmarker"
    /\ \E h \in loops[s] :
          /\ loops' = [loops EXCEPT ![s] = (@ \ {h}) \cup {NextHandle(s, h)}]
          /\ animationFrameRef' = [animationFrameRef EXCEPT ![s] = NextHandle(s, h)]
          /\ \E ready \in BOOLEAN :
                IF ~videoElementRef[s] \/ modelRef[s] = "null" \/ ~ready
                THEN \* video.readyState < 2, or nothing to process
                     /\ Note("skip", s, <<>>)
                     /\ UNCHANGED <<detections, isDetecting>>
                ELSE \/ \* detectForVideo threw: caught and logged
                        /\ Note("frameFail", s, <<>>)
                        /\ UNCHANGED <<detections, isDetecting>>
                     \/ \E r \in Results(s) :
                          /\ OnResults(s, r)
                          /\ Note("results", s, ResultSets(r))
    /\ UNCHANGED <<active, initPc, isLoading, error, modelRef, cameraRef,
                   videoElementRef, inflight>>

(* ------------------------------- Next --------------------------------- *)
Next ==
    \/ \E s \in Sessions : InitSucceed(s) /\ UNCHANGED <<arVars, geoVars>>
    \/ \E s \in Sessions : InitFail(s) /\ UNCHANGED <<arVars, geoVars>>
    \/ \E s \in Sessions : StartTracking(s) /\ UNCHANGED <<arVars, geoVars>>
    \/ \E s \in Sessions : StopTracking(s) /\ UNCHANGED <<arVars, geoVars>>
    \/ \E s \in Sessions : OnFrame(s) /\ UNCHANGED <<arVars, geoVars>>
    \/ \E s \in Sessions : SendResolve(s) /\ UNCHANGED <<arVars, geoVars>>
    \/ \E s \in Sessions : SendReject(s) /\ UNCHANGED <<arVars, geoVars>>
    \/ \E s \in Sessions : ProcessFrame(s) /\ UNCHANGED <<arVars, geoVars>>

Spec == Init /\ [][Next]_vars

TypeOK ==
    /\ active \subseteq Sessions
    /\ \A s \in Sessions :
          /\ initPc[s] \in {"pending", "ok", "failed"}
          /\ isLoading[s] \in BOOLEAN
          /\ error[s] \in {NoError, FailedToLoad, NotInitialized}
          /\ isDetecting[s] \in BOOLEAN
          /\ Len(detections[s]) <= MaxSets(s)
          /\ cameraRef[s] \in Handles \cup {0}
          /\ animationFrameRef[s] \in Handles \cup {0}
          /\ loops[s] \subseteq Handles
          /\ inflight[s] \subseteq Handles

(* --------------------------- geometry engine -------------------------- *)
\* Math.PI in thousandths
Pi == 3142

\* JavaScript division and multiplication of fixed-point numbers, symmetric in sign
Div(a, b) == IF a >= 0 THEN a \div b ELSE -((-a) \div b)

Mul(a, b) == Div(a * b, One)

Abs(a) == IF a >= 0 THEN a ELSE -a

\* the largest r in lo .. hi with r * r <= n, by bisection
RECURSIVE Root(_, _, _)
Root(n, lo, hi) ==
    IF lo = hi THEN lo
    ELSE LET mid == (lo + hi + 1) \div 2
         IN  IF mid * mid <= n THEN Root(n, mid, hi) ELSE Root(n, lo, mid - 1)

\* Math.sqrt of n = (a fixed-point number) squared, rounded down
Sqrt(n) == Root(n, 0, 2 * One)

\* Math.atan of a ratio t in [0, 1]: exact at 0 and at 1
AtanUnit(t) == Mul(Pi \div 4, t) + Mul(Mul(273, t), One - t)

\* variant: Math.atan(dy / dx), which loses the quadrant
Atan2NoQuadrant(dy, dx) ==
    IF dx = 0 /\ dy = 0 THEN 0
    ELSE LET a == Abs(dx)
             b == Abs(dy)
             alpha == IF b <= a THEN AtanUnit(Div(b * One, a))
                      ELSE (Pi \div 2) - AtanUnit(Div(a * One, b))
         IN  IF (dx >= 0) = (dy >= 0) THEN alpha ELSE -alpha

\* Math.atan2(dy, dx), in (-Pi, Pi]
Atan2(dy, dx) ==
    IF dx = 0 /\ dy = 0 THEN 0
    ELSE LET a == Abs(dx)
             b == Abs(dy)
             alpha == IF b <= a THEN AtanUnit(Div(b * One, a))
                      ELSE (Pi \div 2) - AtanUnit(Div(a * One, b))
         IN  IF dx >= 0 THEN (IF dy >= 0 THEN alpha ELSE -alpha)
             ELSE (IF dy >= 0 THEN Pi - alpha ELSE -(Pi - alpha))

\* variant: the scale is the sum of the coordinate differences
computeTransformManhattan(p1, p2) ==
    LET dx == p2.x - p1.x
        dy == p2.y - p1.y
    IN  [x |-> Div(p1.x + p2.x, 2),
         y |-> Div(p1.y + p2.y, 2),
         scale |-> Abs(dx) + Abs(dy),
         rotationRad |-> Atan2(dy, dx)]

computeTransform(p1, p2) ==
    LET dx == p2.x - p1.x
        dy == p2.y - p1.y
    IN  [x |-> Div(p1.x + p2.x, 2),
         y |-> Div(p1.y + p2.y, 2),
         scale |-> Sqrt(dx * dx + dy * dy),
         rotationRad |-> Atan2(dy, dx)]

\* variant: the coordinates are clamped to the surface
normalizedToPixelCoordsClamped(x, y, width, height) ==
    [px |-> Mul(IF x < 0 THEN 0 ELSE IF x > One THEN One ELSE x, width),
     py |-> Mul(IF y < 0 THEN 0 ELSE IF y > One THEN One ELSE y, height)]

normalizedToPixelCoords(x, y, width, height) ==
    [px |-> Mul(x, width), py |-> Mul(y, height)]

\* variant: the factor is pi / 180
radToDegInverse(radians) == Div(radians * Pi, 180 * One)

radToDeg(radians) == Div(radians * 180 * One, Pi)

distance(p1, p2) ==
    LET dx == p2.x - p1.x
        dy == p2.y - p1.y
    IN  Sqrt(dx * dx + dy * dy)

midpoint(p1, p2) == [x |-> Div(p1.x + p2.x, 2), y |-> Div(p1.y + p2.y, 2)]

(* ------------------------------ landmarks ----------------------------- *)
\* a landmark list entry; reading past the end of the list gives undefined
Pt(px, py) == [defined |-> TRUE, x |-> px, y |-> py]

Undefined == [defined |-> FALSE, x |-> 0, y |-> 0]

\* the landmark lists a detector may deliver: two ordinary poses, one whose
\* measured pair of points coincides, and one too short to hold the indices read
Shapes == {"A", "B", "coincident", "short"}

HandPoint(shape, i) ==
    CASE shape = "A" -> IF i = 5 THEN Pt(300, 500) ELSE Pt(300, 200)
      [] shape = "B" -> IF i = 5 THEN Pt(200, 400) ELSE Pt(600, 700)
      [] shape = "coincident" -> Pt(500, 500)
      [] OTHER -> Undefined

FacePoint(shape, i) ==
    CASE shape = "A" ->
           (CASE i = 234 -> Pt(300, 500) [] i = 454 -> Pt(700, 500)
              [] i = 152 -> Pt(500, 800) [] i = 132 -> Pt(320, 600)
              [] OTHER -> Pt(680, 600))
      [] shape = "B" ->
           (CASE i = 234 -> Pt(200, 400) [] i = 454 -> Pt(600, 700)
              [] i = 152 -> Pt(400, 900) [] i = 132 -> Pt(250, 650)
              [] OTHER -> Pt(600, 800))
      [] shape = "coincident" ->
           (CASE i = 234 -> Pt(500, 500) [] i = 454 -> Pt(500, 500)
              [] i = 152 -> Pt(500, 700) [] i = 132 -> Pt(450, 600)
              [] OTHER -> Pt(550, 600))
      [] OTHER -> Undefined

getIndexFingerLandmarks(landmarks) ==
    [base |-> HandPoint(geom[landmarks], 5), pip |-> HandPoint(geom[landmarks], 6)]

getChinLandmarks(landmarks) ==
    [center |-> FacePoint(geom[landmarks], 152),
     leftJaw |-> FacePoint(geom[landmarks], 234),
     rightJaw |-> FacePoint(geom[landmarks], 454)]

getEarLandmarks(landmarks) ==
    [leftEar |-> FacePoint(geom[landmarks], 132),
     rightEar |-> FacePoint(geom[landmarks], 361)]

\* variant: the width is the horizontal distance of the jaw points
getFaceWidthHorizontal(landmarks) ==
    Abs(FacePoint(geom[landmarks], 454).x - FacePoint(geom[landmarks], 234).x)

getFaceWidth(landmarks) ==
    LET leftJaw == FacePoint(geom[landmarks], 234)
        rightJaw == FacePoint(geom[landmarks], 454)
        dx == rightJaw.x - leftJaw.x
        dy == rightJaw.y - leftJaw.y
    IN  Sqrt(dx * dx + dy * dy)

(* ------------------------ one hook, mount to unmount ------------------ *)
\* the cleanup of the hook's mount effect: the Camera hooks stop the Camera
\* and drop the model; the HandLandmarker hook cancels the frame request and
\* closes the landmarker its ref holds at that moment
UnmountHook(s) ==
    /\ s \in active
    /\ Callable(s)
    /\ mounted
    /\ mounted' = FALSE
    /\ IF s \in CameraKinds
       THEN /\ loops' = [loops EXCEPT ![s] = @ \ {cameraRef[s]}]
            /\ modelRef' = [modelRef EXCEPT ![s] = "null"]
       ELSE /\ loops' = [loops EXCEPT ![s] = @ \ {animationFrameRef[s]}]
            /\ modelRef' = [modelRef EXCEPT ![s] = IF @ = "set" THEN "closed" ELSE @]
    /\ Note("unmount", s, <<>>)
    /\ UNCHANGED <<active, initPc, stateVars, cameraRef, animationFrameRef,
                   videoElementRef, inflight>>
    /\ UNCHANGED <<product, geom, videoElement, videoDimensions, overlays, effectPending,
                   crashed, lastEffect, camera, notifyPending, geoVars>>

\* initHandLandmarker resumes after its awaits in an unmounted hook: the ref is
\* assigned, the state setters do nothing
InitSucceedLate(s) ==
    /\ s \in active
    /\ ~mounted
    /\ initPc[s] = "pending"
    /\ initPc' = [initPc EXCEPT ![s] = "ok"]
    /\ modelRef' = [modelRef EXCEPT ![s] = "set"]
    /\ Note("initOk", s, <<>>)
    /\ UNCHANGED <<active, stateVars, cameraRef, animationFrameRef, videoElementRef,
                   loops, inflight>>

\* an await of initHandLandmarker rejects in an unmounted hook
InitFailLate(s) ==
    /\ s \in active
    /\ ~mounted
    /\ initPc[s] = "pending"
    /\ initPc' = [initPc EXCEPT ![s] = "failed"]
    /\ Note("initFail", s, <<>>)
    /\ UNCHANGED <<active, stateVars, refVars, loops, inflight>>

NextHook ==
    \/ \E s \in Sessions : mounted /\ InitSucceed(s) /\ UNCHANGED <<arVars, geoVars>>
    \/ \E s \in Sessions : mounted /\ InitFail(s) /\ UNCHANGED <<arVars, geoVars>>
    \/ \E s \in Sessions : mounted /\ StartTracking(s) /\ UNCHANGED <<arVars, geoVars>>
    \/ \E s \in Sessions : mounted /\ StopTracking(s) /\ UNCHANGED <<arVars, geoVars>>
    \/ \E s \in Sessions : mounted /\ OnFrame(s) /\ UNCHANGED <<arVars, geoVars>>
    \/ \E s \in Sessions : mounted /\ SendResolve(s) /\ UNCHANGED <<arVars, geoVars>>
    \/ \E s \in Sessions : mounted /\ SendReject(s) /\ UNCHANGED <<arVars, geoVars>>
    \/ \E s \in Sessions : mounted /\ ProcessFrame(s) /\ UNCHANGED <<arVars, geoVars>>
    \/ \E s \in Sessions : UnmountHook(s)
    \/ \E s \in Sessions : InitSucceedLate(s) /\ UNCHANGED <<arVars, geoVars>>
    \/ \E s \in Sessions : InitFailLate(s) /\ UNCHANGED <<arVars, geoVars>>

SpecHook == Init /\ [][NextHook]_vars

(* ------------------------------- ARView ------------------------------- *)
\* three catalog entries, one of each type
products ==
    {[type |-> "ring", baseScale |-> 3 * One, offsetX |-> 0, offsetY |-> -(5 * One)],
     [type |-> "necklace", baseScale |-> Div(12 * One, 10), offsetX |-> 0,
      offsetY |-> 30 * One],
     [type |-> "earring", baseScale |-> One, offsetX |-> 5 * One, offsetY |-> 5 * One]}

\* the hook instances ARView creates
HandSession == "hands"

FaceSession == "face"

needsHandTracking == product.type = "ring"

needsFaceTracking == product.type = "necklace" \/ product.type = "earring"

\* the session the product type is tracked by, and the one it is not
Needed == IF needsHandTracking THEN HandSession ELSE FaceSession

Unneeded == IF needsHandTracking THEN FaceSession ELSE HandSession

SlotsOf(type) ==
    CASE type = "ring" -> {"ring"}
      [] type = "necklace" -> {"necklace"}
      [] type = "earring" -> {"leftEarring", "rightEarring"}
      [] OTHER -> {}

\* the <video> element handed to handleVideoReady, and the container <div>
Video == [videoWidth |-> 0, clientWidth |-> 320 * One,
          videoHeight |-> 0, clientHeight |-> 240 * One]

containerRef == [clientWidth |-> 200 * One, clientHeight |-> 100 * One]

\* JavaScript a || b on numbers
OrElse(a, b) == IF a # 0 THEN a ELSE b

containerWidth == OrElse(containerRef.clientWidth, videoDimensions.width)

containerHeight == OrElse(containerRef.clientHeight, videoDimensions.height)

\* the dependency list of the overlay effect (product never changes)
EffectDeps ==
    <<videoElement, videoDimensions, detections[HandSession], detections[FaceSession]>>

\* the effect is scheduled again when a dependency changed in this step;
\* running it twice on equal values sets the same transforms
Schedule == effectPending' = (effectPending \/ EffectDeps' # EffectDeps)

\* setVideoDimensions is given a new object on every call, so the call always
\* re-renders ARView; each render returns new handTracking / faceMesh objects and
\* with them a new handleVideoReady, a dependency of CameraFeed's effect
RendersAgain == TRUE

\* variant: the two needs are tested against the wrong hooks
handleVideoReadySwapped(s) ==
    /\ mounted /\ ~crashed
    /\ camera.hasPermission
    /\ s = Unneeded
    /\ notifyPending
    /\ StartTracking(s)
    /\ videoElement' = TRUE
    /\ videoDimensions' = [width |-> OrElse(Video.videoWidth, Video.clientWidth),
                           height |-> OrElse(Video.videoHeight, Video.clientHeight)]
    /\ notifyPending' = RendersAgain
    /\ Schedule
    /\ UNCHANGED <<product, geom, overlays, crashed, lastEffect, camera, mounted, geoVars>>

\* handleVideoReady(video) as the session to start sees it
handleVideoReady(s) ==
    /\ mounted /\ ~crashed
    /\ camera.hasPermission
    /\ s = Needed
    /\ notifyPending
    /\ StartTracking(s)
    /\ videoElement' = TRUE
    /\ videoDimensions' = [width |-> OrElse(Video.videoWidth, Video.clientWidth),
                           height |-> OrElse(Video.videoHeight, Video.clientHeight)]
    /\ notifyPending' = RendersAgain
    /\ Schedule
    /\ UNCHANGED <<product, geom, overlays, crashed, lastEffect, camera, mounted, geoVars>>

\* a session callback while ARView is mounted: the hook's state change re-renders ARView
Rerender ==
    /\ mounted /\ ~crashed
    /\ UNCHANGED <<product, geom, videoElement, videoDimensions, overlays, crashed,
                   lastEffect, camera, mounted, geoVars>>
    /\ notifyPending' = (notifyPending \/ stateVars' # stateVars)
    /\ Schedule

\* variant: the effect reads the detections of the render before the last callback
StaleBatch == pre[Needed].detections

\* the detections the overlay effect reads for the product type
CurrentBatch == detections[Needed]

\* variant: the transform is reset to its initial value when detection is lost
HiddenReset(prev) == InitialTransform

\* setXTransform(prev => ({ ...prev, visible: false }))
Hidden(prev) == [prev EXCEPT !.visible = FALSE]

\* the landmark entries whose fields the effect reads for a product type
PointsRead(type, landmarks) ==
    CASE type = "ring" ->
           {getIndexFingerLandmarks(landmarks).base, getIndexFingerLandmarks(landmarks).pip}
      [] type = "necklace" ->
           {getChinLandmarks(landmarks).center, getChinLandmarks(landmarks).leftJaw,
            getChinLandmarks(landmarks).rightJaw}
      [] OTHER ->
           {getEarLandmarks(landmarks).leftEar, getEarLandmarks(landmarks).rightEar,
            FacePoint(geom[landmarks], 234), FacePoint(geom[landmarks], 454)}

\* reading .x of undefined raises a TypeError
Throws(type, landmarks) == \E p \in PointsRead(type, landmarks) : ~p.defined

\* variant: x is not mirrored before the pixel conversion
RingTransformNoMirror(landmarks) ==
    LET fingerLandmarks == getIndexFingerLandmarks(landmarks)
        p1 == [x |-> fingerLandmarks.base.x, y |-> fingerLandmarks.base.y]
        p2 == [x |-> fingerLandmarks.pip.x, y |-> fingerLandmarks.pip.y]
        transform == computeTransform(p1, p2)
        pixel == normalizedToPixelCoords(transform.x, transform.y,
                                         containerWidth, containerHeight)
    IN  [x |-> pixel.px + product.offsetX,
         y |-> pixel.py + product.offsetY,
         scale |-> Mul(Mul(Mul(transform.scale, containerWidth), product.baseScale), 150),
         rotation |-> -radToDeg(transform.rotationRad),
         visible |-> TRUE]

RingTransform(landmarks) ==
    LET fingerLandmarks == getIndexFingerLandmarks(landmarks)
        p1 == [x |-> fingerLandmarks.base.x, y |-> fingerLandmarks.base.y]
        p2 == [x |-> fingerLandmarks.pip.x, y |-> fingerLandmarks.pip.y]
        transform == computeTransform(p1, p2)
        pixel == normalizedToPixelCoords(One - transform.x, transform.y,
                                         containerWidth, containerHeight)
    IN  [x |-> pixel.px + product.offsetX,
         y |-> pixel.py + product.offsetY,
         scale |-> Mul(Mul(Mul(transform.scale, containerWidth), product.baseScale), 150),
         rotation |-> -radToDeg(transform.rotationRad),
         visible |-> TRUE]

\* variant: the necklace is positioned at the midpoint of the jaw points
NecklaceTransformJawMidpoint(landmarks) ==
    LET chinLandmarks == getChinLandmarks(landmarks)
        faceWidth == getFaceWidth(landmarks)
        transform == computeTransform(
                        [x |-> chinLandmarks.leftJaw.x, y |-> chinLandmarks.leftJaw.y],
                        [x |-> chinLandmarks.rightJaw.x, y |-> chinLandmarks.rightJaw.y])
        pixel == normalizedToPixelCoords(One - transform.x, transform.y,
                                         containerWidth, containerHeight)
    IN  [x |-> pixel.px + product.offsetX,
         y |-> pixel.py + product.offsetY,
         scale |-> Mul(Mul(Mul(faceWidth, containerWidth), product.baseScale), 800),
         rotation |-> -radToDeg(transform.rotationRad),
         visible |-> TRUE]

NecklaceTransform(landmarks) ==
    LET chinLandmarks == getChinLandmarks(landmarks)
        faceWidth == getFaceWidth(landmarks)
        transform == computeTransform(
                        [x |-> chinLandmarks.leftJaw.x, y |-> chinLandmarks.leftJaw.y],
                        [x |-> chinLandmarks.rightJaw.x, y |-> chinLandmarks.rightJaw.y])
        pixel == normalizedToPixelCoords(One - chinLandmarks.center.x,
                                         chinLandmarks.center.y,
                                         containerWidth, containerHeight)
    IN  [x |-> pixel.px + product.offsetX,
         y |-> pixel.py + product.offsetY,
         scale |-> Mul(Mul(Mul(faceWidth, containerWidth), product.baseScale), 800),
         rotation |-> -radToDeg(transform.rotationRad),
         visible |-> TRUE]

\* variant: offsetX is added on both sides
EarringTransformSameSign(slot, landmarks) ==
    LET earLandmarks == getEarLandmarks(landmarks)
        faceWidth == getFaceWidth(landmarks)
        earringScale == Mul(Mul(Mul(faceWidth, containerWidth), product.baseScale), 300)
        ear == IF slot = "leftEarring" THEN earLandmarks.leftEar ELSE earLandmarks.rightEar
        pixel == normalizedToPixelCoords(One - ear.x, ear.y,
                                         containerWidth, containerHeight)
    IN  [x |-> pixel.px + product.offsetX,
         y |-> pixel.py + product.offsetY,
         scale |-> earringScale, rotation |-> 0, visible |-> TRUE]

\* variant: only the left earring is made visible
EarringTransformLeftOnly(slot, landmarks) ==
    LET earLandmarks == getEarLandmarks(landmarks)
        faceWidth == getFaceWidth(landmarks)
        earringScale == Mul(Mul(Mul(faceWidth, containerWidth), product.baseScale), 300)
        leftEar == normalizedToPixelCoords(One - earLandmarks.leftEar.x,
                                           earLandmarks.leftEar.y,
                                           containerWidth, containerHeight)
        rightEar == normalizedToPixelCoords(One - earLandmarks.rightEar.x,
                                            earLandmarks.rightEar.y,
                                            containerWidth, containerHeight)
    IN  IF slot = "leftEarring"
        THEN [x |-> leftEar.px + product.offsetX,
              y |-> leftEar.py + product.offsetY,
              scale |-> earringScale, rotation |-> 0, visible |-> TRUE]
        ELSE [x |-> rightEar.px - product.offsetX,
              y |-> rightEar.py + product.offsetY,
              scale |-> earringScale, rotation |-> 0, visible |-> FALSE]

EarringTransform(slot, landmarks) ==
    LET earLandmarks == getEarLandmarks(landmarks)
        faceWidth == getFaceWidth(landmarks)
        earringScale == Mul(Mul(Mul(faceWidth, containerWidth), product.baseScale), 300)
        leftEar == normalizedToPixelCoords(One - earLandmarks.leftEar.x,
                                           earLandmarks.leftEar.y,
                                           containerWidth, containerHeight)
        rightEar == normalizedToPixelCoords(One - earLandmarks.rightEar.x,
                                            earLandmarks.rightEar.y,
                                            containerWidth, containerHeight)
    IN  IF slot = "leftEarring"
        THEN [x |-> leftEar.px + product.offsetX,
              y |-> leftEar.py + product.offsetY,
              scale |-> earringScale, rotation |-> 0, visible |-> TRUE]
        ELSE [x |-> rightEar.px - product.offsetX,
              y |-> rightEar.py + product.offsetY,
              scale |-> earringScale, rotation |-> 0, visible |-> TRUE]

\* the transform the effect sets for a slot from the first detection
Placed(slot, landmarks) ==
    CASE slot = "ring" -> RingTransform(landmarks)
      [] slot = "necklace" -> NecklaceTransform(landmarks)
      [] OTHER -> EarringTransform(slot, landmarks)

\* variant: the cleanups drop the Camera references without stopping the Cameras
UnmountSessionsNoStop ==
    /\ cameraRef' = [s \in Sessions |-> IF s \in active THEN 0 ELSE cameraRef[s]]
    /\ animationFrameRef' =
            [s \in Sessions |-> IF s \in active THEN 0 ELSE animationFrameRef[s]]
    /\ videoElementRef' =
            [s \in Sessions |->
                IF s \in active /\ s \notin CameraKinds THEN FALSE ELSE videoElementRef[s]]
    /\ modelRef' = [s \in Sessions |-> IF s \in active THEN "null" ELSE modelRef[s]]
    /\ detections' = [s \in Sessions |-> IF s \in active THEN <<>> ELSE detections[s]]
    /\ isDetecting' = [s \in Sessions |-> IF s \in active THEN FALSE ELSE isDetecting[s]]
    /\ lastOp' = [s \in Sessions |-> IF s \in active THEN "unmount" ELSE lastOp[s]]
    /\ prevOp' = [s \in Sessions |-> IF s \in active THEN lastOp[s] ELSE prevOp[s]]
    /\ pre' = [s \in Sessions |-> IF s \in active THEN Obs(s) ELSE pre[s]]
    /\ lastBatch' = [s \in Sessions |-> IF s \in active THEN <<>> ELSE lastBatch[s]]
    /\ UNCHANGED <<active, initPc, isLoading, error, inflight, loops>>

\* what unmounting ARView does to its two hooks: each hook's effect cleanup
\* (stop the Camera, drop the model), then ARView's cleanup, which calls
\* stopTracking on the hand hook and on the face hook
UnmountSessions ==
    /\ loops' = [s \in Sessions |->
                    IF s \in active
                    THEN loops[s] \ {cameraRef[s], animationFrameRef[s]}
                    ELSE loops[s]]
    /\ cameraRef' = [s \in Sessions |-> IF s \in active THEN 0 ELSE cameraRef[s]]
    /\ animationFrameRef' =
            [s \in Sessions |-> IF s \in active THEN 0 ELSE animationFrameRef[s]]
    /\ videoElementRef' =
            [s \in Sessions |->
                IF s \in active /\ s \notin CameraKinds THEN FALSE ELSE videoElementRef[s]]
    /\ modelRef' = [s \in Sessions |-> IF s \in active THEN "null" ELSE modelRef[s]]
    /\ detections' = [s \in Sessions |-> IF s \in active THEN <<>> ELSE detections[s]]
    /\ isDetecting' = [s \in Sessions |-> IF s \in active THEN FALSE ELSE isDetecting[s]]
    /\ lastOp' = [s \in Sessions |-> IF s \in active THEN "unmount" ELSE lastOp[s]]
    /\ prevOp' = [s \in Sessions |-> IF s \in active THEN lastOp[s] ELSE prevOp[s]]
    /\ pre' = [s \in Sessions |-> IF s \in active THEN Obs(s) ELSE pre[s]]
    /\ lastBatch' = [s \in Sessions |-> IF s \in active THEN <<>> ELSE lastBatch[s]]
    /\ UNCHANGED <<active, initPc, isLoading, error, inflight>>

\* useCamera's effect cleanup: the tracks of the stream held in state are stopped
UnmountCamera ==
    camera' = [camera EXCEPT !.tracks = IF camera.stream THEN FALSE ELSE @]

\* App.handleBack: isARMode becomes false and ARView is unmounted
Unmount ==
    /\ mounted
    /\ mounted' = FALSE
    /\ UnmountSessions
    /\ UnmountCamera
    /\ notifyPending' = FALSE
    /\ UNCHANGED <<product, geom, videoElement, videoDimensions, overlays,
                   effectPending, crashed, lastEffect, geoVars>>

(* ------------------------------ useCamera ----------------------------- *)
CameraError == "camera error"

\* variant: startCamera leaves the previous error in place
startCameraKeepsError ==
    /\ mounted /\ ~crashed
    /\ camera.pc = "idle" \/ camera.error # NoError
    /\ camera' = [camera EXCEPT !.pc = "requesting", !.isLoading = TRUE]
    /\ UNCHANGED notifyPending
    /\ UNCHANGED <<sessionVars, product, geom, videoElement, videoDimensions, overlays,
                   effectPending, crashed, lastEffect, mounted, geoVars>>

\* startCamera up to its first await: called by CameraFeed's mount effect and
\* by the Try Again button, which is rendered while error is set
startCamera ==
    /\ mounted /\ ~crashed
    /\ camera.pc = "idle" \/ camera.error # NoError
    /\ camera' = [camera EXCEPT !.pc = "requesting", !.isLoading = TRUE,
                                !.error = NoError]
    /\ UNCHANGED notifyPending
    /\ UNCHANGED <<sessionVars, product, geom, videoElement, videoDimensions, overlays,
                   effectPending, crashed, lastEffect, mounted, geoVars>>

\* variant: hasPermission is not a dependency of CameraFeed's video-ready effect
CameraGrantedUnnoticed ==
    /\ mounted /\ ~crashed
    /\ camera.pc = "requesting"
    /\ camera' = [camera EXCEPT !.pc = "settled", !.isLoading = FALSE,
                                !.hasPermission = TRUE, !.stream = TRUE,
                                !.tracks = TRUE]
    /\ UNCHANGED notifyPending
    /\ UNCHANGED <<sessionVars, product, geom, videoElement, videoDimensions, overlays,
                   effectPending, crashed, lastEffect, mounted, geoVars>>

\* getUserMedia resolved and the video plays
CameraGranted ==
    /\ mounted /\ ~crashed
    /\ camera.pc = "requesting"
    /\ camera' = [camera EXCEPT !.pc = "settled", !.isLoading = FALSE,
                                !.hasPermission = TRUE, !.stream = TRUE,
                                !.tracks = TRUE]
    /\ notifyPending' = TRUE
    /\ UNCHANGED <<sessionVars, product, geom, videoElement, videoDimensions, overlays,
                   effectPending, crashed, lastEffect, mounted, geoVars>>

\* getUserMedia rejected, or it resolved and play() rejected: the catch block,
\* which does not stop a stream that was acquired
CameraFailed ==
    /\ mounted /\ ~crashed
    /\ camera.pc = "requesting"
    /\ \E acquired \in BOOLEAN :
          camera' = [camera EXCEPT !.pc = "settled", !.isLoading = FALSE,
                                   !.hasPermission = FALSE, !.error = CameraError,
                                   !.leaked = @ \/ acquired]
    /\ notifyPending' = TRUE
    /\ UNCHANGED <<sessionVars, product, geom, videoElement, videoDimensions, overlays,
                   effectPending, crashed, lastEffect, mounted, geoVars>>

\* startCamera completes after CameraFeed was unmounted: the state setters do
\* nothing, the cleanup has already run; a stream that was acquired stays live
CameraSettledLate ==
    /\ ~mounted
    /\ camera.pc = "requesting"
    /\ \E acquired \in BOOLEAN :
          camera' = [camera EXCEPT !.pc = "settled", !.leaked = @ \/ acquired]
    /\ UNCHANGED notifyPending
    /\ UNCHANGED <<sessionVars, product, geom, videoElement, videoDimensions, overlays,
                   effectPending, crashed, lastEffect, mounted, geoVars>>

\* CameraFeed renders the Try Again button, the only retry control under ARView
RetryButton == camera.error # NoError

\* CameraFeed's video-ready effect run without permission: it does nothing.
\* With permission the video plays and the run is a call of handleVideoReady.
VideoReadyEffect ==
    /\ mounted /\ ~crashed
    /\ notifyPending
    /\ ~camera.hasPermission
    /\ notifyPending' = FALSE
    /\ UNCHANGED <<sessionVars, product, geom, videoElement, videoDimensions, overlays,
                   effectPending, crashed, lastEffect, camera, mounted, geoVars>>

\* the overlay effect, run after a render in which one of its dependencies changed;
\* an error thrown by it is caught by no boundary, so React unmounts the tree
OverlayUpdate ==
    /\ mounted /\ ~crashed
    /\ effectPending
    /\ effectPending' = FALSE
    /\ IF ~videoElement
       THEN /\ lastEffect' = "return"
            /\ UNCHANGED <<overlays, crashed, sessionVars, camera, mounted, notifyPending>>
       ELSE LET batch == CurrentBatch
                mine == SlotsOf(product.type)
            IN  IF Len(batch) > 0
                THEN IF Throws(product.type, batch[1].landmarks)
                     THEN /\ crashed' = TRUE
                          /\ lastEffect' = "throw"
                          /\ mounted' = FALSE
                          /\ UnmountSessions
                          /\ UnmountCamera
                          /\ notifyPending' = FALSE
                          /\ UNCHANGED overlays
                     ELSE /\ overlays' =
                                [k \in Slots |->
                                    IF k \in mine
                                    THEN Placed(k, batch[1].landmarks)
                                    ELSE overlays[k]]
                          /\ lastEffect' = "placed"
                          /\ notifyPending' = (notifyPending \/ overlays' # overlays)
                          /\ UNCHANGED <<crashed, sessionVars, camera, mounted>>
                ELSE /\ overlays' = [k \in Slots |->
                                        IF k \in mine THEN Hidden(overlays[k])
                                        ELSE overlays[k]]
                     /\ lastEffect' = "hidden"
                     /\ notifyPending' = (notifyPending \/ overlays' # overlays)
                     /\ UNCHANGED <<crashed, sessionVars, camera, mounted>>
    /\ UNCHANGED <<product, geom, videoElement, videoDimensions, geoVars>>

\* the landmark lists the detectors deliver while ARView is mounted: the first
\* value is an ordinary pose, the others share one of the remaining shapes
Geometries ==
    {[l \in LandmarkSets |-> IF l = 1 THEN "A" ELSE shape] : shape \in Shapes \ {"A"}}

\* ARView mounted with one product; both hooks exist whatever the product type
InitAR ==
    /\ active = {HandSession, FaceSession}
    /\ InitSessions
    /\ product \in products
    /\ geom \in Geometries
    /\ InitOverlay
    /\ effectPending = TRUE
    /\ notifyPending = TRUE
    /\ InitGeometry

NextAR ==
    \/ \E s \in Sessions : InitSucceed(s) /\ Rerender
    \/ \E s \in Sessions : InitFail(s) /\ Rerender
    \/ \E s \in Sessions : handleVideoReady(s)
    \/ \E s \in Sessions : OnFrame(s) /\ Rerender
    \/ \E s \in Sessions : SendResolve(s) /\ Rerender
    \/ \E s \in Sessions : SendReject(s) /\ Rerender
    \/ OverlayUpdate
    \/ VideoReadyEffect
    \/ startCamera
    \/ CameraGranted
    \/ CameraFailed
    \/ CameraSettledLate
    \/ Unmount

SpecAR == InitAR /\ [][NextAR]_vars

\* ARView mounted in front of a subject whose landmark lists are all complete
InitARFair ==
    /\ InitAR
    /\ geom = [l \in LandmarkSets |-> IF l = 1 THEN "A" ELSE "B"]

\* React runs a scheduled effect: the video-ready notification is not postponed
\* forever
SpecARFair ==
    InitARFair /\ [][NextAR]_vars /\ WF_vars(\E s \in Sessions : handleVideoReady(s))

TypeOKAR ==
    /\ product \in products \cup {NoProduct}
    /\ geom \in [LandmarkSets -> Shapes]
    /\ videoElement \in BOOLEAN
    /\ crashed \in BOOLEAN
    /\ effectPending \in BOOLEAN
    /\ notifyPending \in BOOLEAN
    /\ mounted \in BOOLEAN
    /\ camera.pc \in {"idle", "requesting", "settled"}
    /\ camera.error \in {NoError, CameraError}
    /\ DOMAIN overlays = Slots
    /\ \A k \in Slots : overlays[k].visible \in BOOLEAN
    /\ lastEffect \in {"none", "return", "placed", "hidden", "throw"}

(* -------------------------------- App --------------------------------- *)
\* App keeps selectedProduct (product; NoProduct is null) and isARMode; ARView
\* is rendered when both are set, which is what `mounted` records

\* App right after its first render: the selector is shown, no hook exists
InitApp ==
    /\ active = {}
    /\ InitSessions
    /\ product = NoProduct
    /\ geom \in Geometries
    /\ videoElement = FALSE
    /\ videoDimensions = [width |-> 0, height |-> 0]
    /\ overlays = [k \in Slots |-> InitialTransform]
    /\ crashed = FALSE
    /\ lastEffect = "none"
    /\ camera = InitialCamera
    /\ mounted = FALSE
    /\ effectPending = FALSE
    /\ notifyPending = FALSE
    /\ InitGeometry

\* JewelrySelector calls onSelectProduct; the selector exists outside AR mode only
handleSelectProduct(p) ==
    /\ ~mounted /\ ~crashed
    /\ product' = p
    /\ UNCHANGED <<sessionVars, geom, videoElement, videoDimensions, overlays,
                   effectPending, crashed, lastEffect, camera, mounted, notifyPending,
                   geoVars>>

\* the new hook instances of a mounting ARView
MountSessions ==
    /\ active' = {HandSession, FaceSession}
    /\ initPc' = [s \in Sessions |-> "pending"]
    /\ isLoading' = [s \in Sessions |-> TRUE]
    /\ error' = [s \in Sessions |-> NoError]
    /\ detections' = [s \in Sessions |-> <<>>]
    /\ isDetecting' = [s \in Sessions |-> FALSE]
    /\ modelRef' = [s \in Sessions |-> "null"]
    /\ cameraRef' = [s \in Sessions |-> 0]
    /\ animationFrameRef' = [s \in Sessions |-> 0]
    /\ videoElementRef' = [s \in Sessions |-> FALSE]
    /\ loops' = [s \in Sessions |-> {}]
    /\ inflight' = [s \in Sessions |-> {}]
    /\ lastOp' = [s \in Sessions |-> "mount"]
    /\ prevOp' = [s \in Sessions |-> "mount"]
    /\ pre' = [s \in Sessions |->
                 [isLoading |-> TRUE, error |-> NoError, detections |-> <<>>,
                  isDetecting |-> FALSE, loops |-> {}]]
    /\ lastBatch' = [s \in Sessions |-> <<>>]

\* the new useCamera instance; a startCamera call of the previous instance that
\* is still pending settles unobserved, with or without a stream
MountCamera ==
    \E acquired \in BOOLEAN :
        camera' = [InitialCamera EXCEPT
                      !.leaked = camera.leaked \/ (camera.pc = "requesting" /\ acquired)]

\* variant: the overlay transforms of the previous ARView are kept
MountOverlaysKept == UNCHANGED overlays

\* the useState initial values of a mounting ARView
MountOverlays == overlays' = [k \in Slots |-> InitialTransform]

\* App.handleStartAR: without a selection nothing happens, with one ARView mounts
handleStartAR ==
    /\ ~mounted /\ ~crashed
    /\ IF product = NoProduct
       THEN UNCHANGED vars
       ELSE /\ mounted' = TRUE
            /\ MountSessions
            /\ MountCamera
            /\ MountOverlays
            /\ videoElement' = FALSE
            /\ videoDimensions' = [width |-> 0, height |-> 0]
            /\ effectPending' = TRUE
            /\ notifyPending' = TRUE
            /\ lastEffect' = "none"
            /\ UNCHANGED <<product, geom, crashed, geoVars>>

NextApp ==
    \/ \E p \in products : handleSelectProduct(p)
    \/ handleStartAR
    \/ \E s \in Sessions : InitSucceed(s) /\ Rerender
    \/ \E s \in Sessions : InitFail(s) /\ Rerender
    \/ \E s \in Sessions : handleVideoReady(s)
    \/ \E s \in Sessions : OnFrame(s) /\ Rerender
    \/ \E s \in Sessions : SendResolve(s) /\ Rerender
    \/ \E s \in Sessions : SendReject(s) /\ Rerender
    \/ OverlayUpdate
    \/ VideoReadyEffect
    \/ startCamera
    \/ CameraGranted
    \/ CameraFailed
    \/ CameraSettledLate
    \/ Unmount

SpecApp == InitApp /\ [][NextApp]_vars

(* ----------------------- geometry engine on its own ------------------- *)
\* normalized coordinates, some outside [0, 1]
Coords == {-(One \div 5), 0, One \div 2, One}

Points == [x : Coords, y : Coords]

\* surfaces in pixels
Surfaces == {[width |-> 640 * One, height |-> 480 * One], [width |-> 0, height |-> 0]}

Angles == {-Pi, -(Pi \div 2), 0, Pi \div 4, Pi \div 2, Pi}

Inputs ==
    {[p1 |-> a, p2 |-> b, width |-> s.width, height |-> s.height, radians |-> r] :
        a \in Points, b \in Points, s \in Surfaces, r \in Angles}

\* no component mounted; the arguments of the calls are chosen
InitGeo ==
    /\ active = {}
    /\ InitSessions
    /\ product = NoProduct
    /\ geom \in Geometries
    /\ InitOverlay
    /\ effectPending = FALSE
    /\ notifyPending = FALSE
    /\ input \in Inputs
    /\ output = NoOutput

CallComputeTransform ==
    /\ output' = [fn |-> "computeTransform",
                  value |-> computeTransform(input.p1, input.p2)]
    /\ UNCHANGED <<sessionVars, arVars, input>>

CallDistance ==
    /\ output' = [fn |-> "distance", value |-> distance(input.p1, input.p2)]
    /\ UNCHANGED <<sessionVars, arVars, input>>

CallMidpoint ==
    /\ output' = [fn |-> "midpoint", value |-> midpoint(input.p1, input.p2)]
    /\ UNCHANGED <<sessionVars, arVars, input>>

CallNormalizedToPixelCoords ==
    /\ output' = [fn |-> "normalizedToPixelCoords",
                  value |-> normalizedToPixelCoords(input.p1.x, input.p1.y,
                                                    input.width, input.height)]
    /\ UNCHANGED <<sessionVars, arVars, input>>

CallRadToDeg ==
    /\ output' = [fn |-> "radToDeg", value |-> radToDeg(input.radians)]
    /\ UNCHANGED <<sessionVars, arVars, input>>

\* getFaceWidth on a landmark list that holds both jaw points
CallGetFaceWidth ==
    \E l \in LandmarkSets :
        /\ FacePoint(geom[l], 234).defined /\ FacePoint(geom[l], 454).defined
        /\ output' = [fn |-> "getFaceWidth",
                      value |-> [landmarks |-> l, width |-> getFaceWidth(l)]]
        /\ UNCHANGED <<sessionVars, arVars, input>>

NextGeo ==
    \/ CallComputeTransform
    \/ CallDistance
    \/ CallMidpoint
    \/ CallNormalizedToPixelCoords
    \/ CallRadToDeg
    \/ CallGetFaceWidth

SpecGeo == InitGeo /\ [][NextGeo]_vars

(* ============================== claims ================================ *)
\* the session holds no loop handle: never started, or stopped since
NotTracking(s) == cameraRef[s] = 0 /\ animationFrameRef[s] = 0

LandmarksOf(d) == [i \in 1 .. Len(d) |-> d[i].landmarks]

\* C1: once stopTracking has returned (and until the next startTracking), no
\* detection result is applied: a callback that was in flight when the session
\* was stopped leaves detections empty and isDetecting false.
C1_LateCallbackDiscarded ==
    \A s \in active :
        NotTracking(s) => detections[s] = <<>> /\ ~isDetecting[s]

\* C2: after any sequence of startTracking and stopTracking calls at most one
\* frame-feeding loop is live per session, and it is the one the stored handle
\* names: a restart releases the previous loop before the new one starts.
C2_AtMostOneLoop ==
    \A s \in active :
        /\ Cardinality(loops[s]) <= 1
        /\ loops[s] \subseteq {cameraRef[s], animationFrameRef[s]}

C2_Witness ==
    \E s \in active :
        /\ lastOp[s] = "restart"
        /\ pre[s].loops # {}
        /\ Cardinality(loops[s]) = 1
        /\ loops[s] # pre[s].loops

\* C3: right after any stopTracking call, from whatever state it was made,
\* isDetecting is false and detections is empty.
C3_StopClearsDetections ==
    \A s \in active :
        lastOp[s] = "stop" => ~isDetecting[s] /\ detections[s] = <<>>

C3_Witness ==
    \E s \in active :
        lastOp[s] = "stop" /\ pre[s].isDetecting /\ pre[s].loops # {}

\* C4: in every reachable state isDetecting is true exactly when the
\* detections list is non-empty.
C4_DetectingIffNonEmpty ==
    \A s \in active : isDetecting[s] <=> detections[s] # <<>>

C4_Witness ==
    \E s \in active :
        lastOp[s] = "results" /\ isDetecting[s] /\ Len(detections[s]) = MaxSets(s)

\* C5: after a detection callback the detections are exactly the landmark sets
\* of that callback, in order, whatever they were before; a callback with no
\* landmark set empties detections and clears isDetecting on that update.
C5_ReplacedWholesale ==
    \A s \in active :
        lastOp[s] = "results" =>
            /\ LandmarksOf(detections[s]) = lastBatch[s]
            /\ lastBatch[s] = <<>> => ~isDetecting[s]

C5_Witness ==
    \E s \in active :
        /\ lastOp[s] = "results"
        /\ pre[s].isDetecting
        /\ Len(pre[s].detections) = 2
        /\ lastBatch[s] = <<>>

\* C6: startTracking on a session whose detector is not initialized starts no
\* frame-feeding loop, sets error to a message, and leaves detections,
\* isDetecting and isLoading as they were.
C6_StartUninitialized ==
    \A s \in active :
        lastOp[s] = "startUninit" =>
            /\ error[s] # NoError
            /\ loops[s] = {}
            /\ NotTracking(s)
            /\ detections[s] = pre[s].detections
            /\ isDetecting[s] = pre[s].isDetecting
            /\ isLoading[s] = pre[s].isLoading

C6_Witness ==
    \E s \in active :
        lastOp[s] = "startUninit" /\ isLoading[s] /\ pre[s].error = NoError

\* C7: error is non-null only if the initialization of the detector failed; a
\* session whose initialization succeeds never shows an error.
C7_ErrorOnlyOnInitFailure ==
    \A s \in active : error[s] # NoError => initPc[s] = "failed"

\* C8: a failed initialization leaves error set and isLoading false, for good:
\* whatever calls follow, error stays non-null, no frame-feeding loop exists
\* and isDetecting stays false.
C8_InitFailureTerminal ==
    \A s \in active :
        initPc[s] = "failed" =>
            /\ error[s] # NoError
            /\ ~isLoading[s]
            /\ loops[s] = {}
            /\ inflight[s] = {}
            /\ ~isDetecting[s]
            /\ detections[s] = <<>>

C8_Witness ==
    \E s \in active :
        initPc[s] = "failed" /\ lastOp[s] = "stop" /\ prevOp[s] = "startUninit"

\* C9: a frame whose processing fails changes none of error, isDetecting and
\* detections and does not end the frame-feeding loop: a loop that was live
\* before the failure is live after it.
C9_FrameFailureSwallowed ==
    \A s \in active :
        lastOp[s] = "frameFail" =>
            /\ error[s] = pre[s].error
            /\ isDetecting[s] = pre[s].isDetecting
            /\ detections[s] = pre[s].detections
            /\ Cardinality(loops[s]) = Cardinality(pre[s].loops)

\* C10: stopTracking twice in a row leaves the same observable state as once.
C10_StopIdempotent ==
    \A s \in active :
        (lastOp[s] = "stop" /\ prevOp[s] = "stop") =>
            Obs(s) = pre[s] /\ loops[s] = {}

C10_Witness ==
    \E s \in active :
        lastOp[s] = "stop" /\ prevOp[s] = "stop" /\ inflight[s] # {}

\* C11: stopTracking on a session that is not tracking (never started, still
\* loading, or failed to initialize) changes neither error nor isLoading.
C11_StopNeverStarted ==
    \A s \in active :
        lastOp[s] = "stop" =>
            error[s] = pre[s].error /\ isLoading[s] = pre[s].isLoading

C11_Witness ==
    \E s \in active :
        /\ lastOp[s] = "stop"
        /\ prevOp[s] \in {"mount", "initFail"}
        /\ initPc[s] # "ok"

\* C12: isLoading is true exactly while the initialization is running: from
\* creation until it succeeds or fails, and never again afterwards.
C12_LoadingOnlyDuringInit ==
    \A s \in active : isLoading[s] <=> initPc[s] = "pending"

C12_Witness ==
    \E s \in active :
        initPc[s] = "ok" /\ lastOp[s] = "results" /\ prevOp[s] = "restart"

\* the lifecycle state of the data model, read off the session
Lifecycle(s) ==
    IF initPc[s] = "pending" THEN "Loading"
    ELSE IF initPc[s] = "failed" THEN "Failed"
    ELSE IF isDetecting[s] THEN "Detecting"
    ELSE IF ~NotTracking(s) THEN "Idle"
    ELSE IF lastOp[s] = "initOk" THEN "Ready"
    ELSE "Stopped"

LifecycleMoves ==
    {<<"Loading", "Ready">>, <<"Loading", "Failed">>,
     <<"Ready", "Idle">>, <<"Ready", "Detecting">>, <<"Ready", "Stopped">>,
     <<"Idle", "Detecting">>, <<"Detecting", "Idle">>,
     <<"Idle", "Stopped">>, <<"Detecting", "Stopped">>}

\* C13: the lifecycle state only moves along Loading -> Ready ->
\* {Idle, Detecting} -> Stopped; Detecting is not entered from Loading or from a
\* failed initialization, and a Stopped session never returns to Idle or Detecting.
C13_LifecycleOrder ==
    [][\A s \in active :
          \/ Lifecycle(s)' = Lifecycle(s)
          \/ <<Lifecycle(s), Lifecycle(s)'>> \in LifecycleMoves]_vars

(* ----------------------------- ARView claims -------------------------- *)
\* the landmark list the overlay effect would read now
FirstLandmarks == detections[Needed][1].landmarks

\* C14: in every state of the AR view a transform is visible only if it belongs
\* to the product's jewelry type and the session of that type has a current
\* detection (hands non-empty for ring, faces non-empty for necklace and earrings).
C14_HiddenWithoutDetection ==
    \A k \in Slots :
        overlays[k].visible =>
            (k \in SlotsOf(product.type) /\ Len(detections[Needed]) > 0)

\* C15: a run of the overlay update with no detection for the product's type
\* leaves x, y, scale and rotation of its transforms as they were and sets only
\* visible to false.
C15_LossKeepsPlacement ==
    [][(effectPending /\ ~effectPending' /\ videoElement /\ Len(detections[Needed]) = 0)
          => \A k \in SlotsOf(product.type) :
                overlays'[k] = [overlays[k] EXCEPT !.visible = FALSE]]_vars

C15_Witness ==
    /\ lastEffect = "hidden"
    /\ \E k \in SlotsOf(product.type) :
          /\ ~overlays[k].visible
          /\ overlays[k].scale # InitialTransform.scale
          /\ overlays[k].x # InitialTransform.x

\* C16: in every state of the AR view there is exactly one transform for ring,
\* one for necklace and two for earring, whatever the product and whatever
\* detections, losses and restarts happened.
C16_FourTransforms ==
    /\ Cardinality(DOMAIN overlays \cap SlotsOf("ring")) = 1
    /\ Cardinality(DOMAIN overlays \cap SlotsOf("necklace")) = 1
    /\ Cardinality(DOMAIN overlays \cap SlotsOf("earring")) = 2
    /\ Cardinality(DOMAIN overlays) = 4

C16_Witness ==
    /\ product.type = "ring"
    /\ lastEffect = "hidden"
    /\ lastOp[Needed] = "restart"
    /\ ~overlays["ring"].visible /\ overlays["ring"].x # InitialTransform.x

\* C17: once the batch of the last detection callback has been applied and the
\* overlay update has run, the transforms of the product's type are those
\* derived from the first landmark set of that batch alone (hidden if it is empty).
C17_LatestBatchOnly ==
    (lastOp[Needed] = "results" /\ ~effectPending /\ ~crashed) =>
        \A k \in SlotsOf(product.type) :
            IF Len(lastBatch[Needed]) > 0
            THEN overlays[k] = Placed(k, lastBatch[Needed][1])
            ELSE ~overlays[k].visible

C17_Witness ==
    /\ lastOp[Needed] = "results" /\ ~effectPending /\ ~crashed
    /\ lastEffect = "placed"
    /\ Len(lastBatch[Needed]) > 0 /\ Len(pre[Needed].detections) > 0
    /\ geom[lastBatch[Needed][1]] # geom[pre[Needed].detections[1].landmarks]
    /\ \A k \in SlotsOf(product.type) : overlays[k].visible

\* C18: in every state of the AR view the session the product's type does not
\* need holds no frame loop and has no frame in flight: the face session for a
\* ring, the hand session for a necklace or an earring.
C18_UnneededNeverTracks ==
    /\ loops[Unneeded] = {}
    /\ inflight[Unneeded] = {}
    /\ cameraRef[Unneeded] = 0
    /\ animationFrameRef[Unneeded] = 0

C18_Witness ==
    /\ initPc[Unneeded] = "ok"
    /\ loops[Needed] # {}
    /\ isDetecting[Needed]

\* C19: when the overlay update has run on a detection whose two measured
\* landmarks coincide (base and pip of the index finger for a ring, the two jaw
\* points for a necklace), the transform is not visible and nothing was thrown.
C19_CoincidentNotRendered ==
    (/\ product.type \in {"ring", "necklace"}
     /\ ~effectPending
     /\ Len(detections[Needed]) > 0
     /\ geom[FirstLandmarks] = "coincident")
        => (~crashed /\ \A k \in SlotsOf(product.type) : ~overlays[k].visible)

\* C20: the overlay update never throws; when it has run on a detection whose
\* first landmark list lacks an index the product's type reads, the transforms
\* of that type are not visible.
C20_CompositorNeverThrows ==
    /\ ~crashed
    /\ (/\ ~effectPending
        /\ Len(detections[Needed]) > 0
        /\ Throws(product.type, FirstLandmarks))
          => \A k \in SlotsOf(product.type) : ~overlays[k].visible

\* a failure the user is to be told about: the camera reported an error, or the
\* tracking model the product needs failed to load
FailureState == camera.error # NoError \/ error[Needed] # NoError

\* C21: while ARView is mounted and a failure state holds (camera error, or
\* error set in the session the product needs), a retry control is rendered.
C21_RetryOffered == (mounted /\ FailureState) => RetryButton

\* the overlay update has run on the current, non-empty detections
Settled == mounted /\ ~crashed /\ ~effectPending /\ Len(detections[Needed]) > 0

\* pixels per unit of normalized width and height
PixelWidth == containerWidth \div One

PixelHeight == containerHeight \div One

\* C22: for an earring product with a detected face, once the overlay update
\* has run, exactly the two earring transforms are visible, both with rotation 0
\* and the same scale; left x = (1 - leftEarlobe.x) * width + offsetX,
\* right x = (1 - rightEarlobe.x) * width - offsetX, each y = earlobe.y * height + offsetY.
C22_EarringPair ==
    (product.type = "earring" /\ Settled) =>
        LET le == FacePoint(geom[FirstLandmarks], 132)
            re == FacePoint(geom[FirstLandmarks], 361)
            L == overlays["leftEarring"]
            R == overlays["rightEarring"]
        IN  /\ {k \in Slots : overlays[k].visible} = {"leftEarring", "rightEarring"}
            /\ L.rotation = 0 /\ R.rotation = 0
            /\ L.scale = R.scale
            /\ L.x = (One - le.x) * PixelWidth + product.offsetX
            /\ R.x = (One - re.x) * PixelWidth - product.offsetX
            /\ L.y = le.y * PixelHeight + product.offsetY
            /\ R.y = re.y * PixelHeight + product.offsetY

C22_Witness ==
    /\ product.type = "earring" /\ Settled
    /\ lastEffect = "placed"
    /\ product.offsetX # 0
    /\ geom[FirstLandmarks] = "B"

\* C23: for a ring product with at least one detected hand, once the overlay
\* update has run, the ring transform is computed from landmarks 5 and 6 of the
\* first hand alone: x = (1 - midpoint.x) * width + offsetX,
\* y = midpoint.y * height + offsetY, scale = distance * width * baseScale * 0.15,
\* rotation = -radToDeg(atan2(dy, dx)), visible.
C23_RingFromFirstHand ==
    (product.type = "ring" /\ Settled) =>
        LET base == HandPoint(geom[FirstLandmarks], 5)
            pip == HandPoint(geom[FirstLandmarks], 6)
            mid == midpoint(base, pip)
            T == overlays["ring"]
        IN  /\ T.visible
            /\ T.x = (One - mid.x) * PixelWidth + product.offsetX
            /\ T.y = mid.y * PixelHeight + product.offsetY
            /\ T.scale = Mul(Mul(distance(base, pip) * PixelWidth, product.baseScale), 150)
            /\ T.rotation = -radToDeg(Atan2(pip.y - base.y, pip.x - base.x))

C23_Witness ==
    /\ product.type = "ring" /\ Settled
    /\ lastEffect = "placed"
    /\ Len(detections[Needed]) = 2
    /\ geom[FirstLandmarks] = "B"
    /\ geom[detections[Needed][2].landmarks] # "B"

\* C24: for a necklace product with a detected face, once the overlay update
\* has run, the necklace transform is positioned at the chin-center landmark
\* (x = (1 - chin.x) * width + offsetX, y = chin.y * height + offsetY), rotated by
\* the negated angle of the left-jaw to right-jaw vector in degrees, scaled by
\* faceWidth * width * baseScale * 0.8, and visible.
C24_NecklaceFromChin ==
    (product.type = "necklace" /\ Settled) =>
        LET chin == FacePoint(geom[FirstLandmarks], 152)
            lj == FacePoint(geom[FirstLandmarks], 234)
            rj == FacePoint(geom[FirstLandmarks], 454)
            T == overlays["necklace"]
        IN  /\ T.visible
            /\ T.x = (One - chin.x) * PixelWidth + product.offsetX
            /\ T.y = chin.y * PixelHeight + product.offsetY
            /\ T.scale = Mul(Mul(distance(lj, rj) * PixelWidth, product.baseScale), 800)
            /\ T.rotation = -radToDeg(Atan2(rj.y - lj.y, rj.x - lj.x))

C24_Witness ==
    /\ product.type = "necklace" /\ Settled
    /\ lastEffect = "placed"
    /\ geom[FirstLandmarks] = "B"
    /\ overlays["necklace"].rotation # 0

(* ------------------------- geometry engine claims --------------------- *)
\* C25: computeTransform(p1, p2).scale is distance(p1, p2) and its x, y are
\* those of midpoint(p1, p2); the scale is 0 when p1 = p2.
C25_TransformIsDistanceAndMidpoint ==
    output.fn = "computeTransform" =>
        /\ output.value.scale = distance(input.p1, input.p2)
        /\ output.value.x = midpoint(input.p1, input.p2).x
        /\ output.value.y = midpoint(input.p1, input.p2).y
        /\ input.p1 = input.p2 => output.value.scale = 0
        /\ input.p1 # input.p2 => output.value.scale > 0

C25_Witness ==
    /\ output.fn = "computeTransform"
    /\ input.p1.x # input.p2.x /\ input.p1.y # input.p2.y
    /\ output.value.scale > One

\* C26: getFaceWidth(landmarks) is distance(leftJaw, rightJaw) for landmarks
\* 234 and 454, which is computeTransform(leftJaw, rightJaw).scale.
C26_FaceWidthIsJawDistance ==
    output.fn = "getFaceWidth" =>
        LET lj == FacePoint(geom[output.value.landmarks], 234)
            rj == FacePoint(geom[output.value.landmarks], 454)
        IN  /\ output.value.width = distance(lj, rj)
            /\ output.value.width = computeTransform(lj, rj).scale

C26_Witness ==
    /\ output.fn = "getFaceWidth"
    /\ geom[output.value.landmarks] = "B"
    /\ output.value.width > 0

\* C27: normalizedToPixelCoords(x, y, width, height) is (x * width, y * height)
\* for every input, unclamped: (0, 0) gives (0, 0), (1, 1) gives (width, height).
C27_PixelCoordsScale ==
    output.fn = "normalizedToPixelCoords" =>
        /\ output.value.px * One = input.p1.x * input.width
        /\ output.value.py * One = input.p1.y * input.height
        /\ (input.p1.x = 0 /\ input.p1.y = 0) =>
              (output.value.px = 0 /\ output.value.py = 0)
        /\ (input.p1.x = One /\ input.p1.y = One) =>
              (output.value.px = input.width /\ output.value.py = input.height)

C27_Witness ==
    /\ output.fn = "normalizedToPixelCoords"
    /\ input.p1.x < 0 /\ input.width > 0
    /\ output.value.px < 0

\* C28: computeTransform's rotation is the angle of the vector from p1 to p2
\* with its quadrant: 0 pointing right, pi/2 pointing down, pi/4 on the diagonal,
\* pi pointing left, of the sign of dy otherwise, and always in (-pi, pi].
C28_RotationQuadrant ==
    output.fn = "computeTransform" =>
        LET dx == input.p2.x - input.p1.x
            dy == input.p2.y - input.p1.y
            rot == output.value.rotationRad
        IN  /\ -Pi < rot /\ rot <= Pi
            /\ (dy = 0 /\ dx > 0) => rot = 0
            /\ (dx = 0 /\ dy > 0) => rot = Pi \div 2
            /\ (dx = dy /\ dx > 0) => rot = Pi \div 4
            /\ (dy = 0 /\ dx < 0) => rot = Pi
            /\ dy > 0 => (rot > 0 /\ (dx < 0 <=> rot > Pi \div 2))
            /\ dy < 0 => (rot < 0 /\ (dx < 0 <=> rot < -(Pi \div 2)))

C28_Witness ==
    /\ output.fn = "computeTransform"
    /\ input.p2.x < input.p1.x /\ input.p2.y < input.p1.y
    /\ output.value.rotationRad < -(Pi \div 2)

\* C29: radToDeg multiplies by 180 / pi: radToDeg(0) = 0, radToDeg(pi) = 180,
\* radToDeg(pi / 2) = 90.
C29_RadToDeg ==
    output.fn = "radToDeg" =>
        /\ input.radians = 0 => output.value = 0
        /\ input.radians = Pi => output.value = 180 * One
        /\ input.radians = Pi \div 2 => output.value = 90 * One
        /\ Abs(output.value * Pi - input.radians * 180 * One) < Pi

C29_Witness ==
    /\ output.fn = "radToDeg"
    /\ input.radians = Pi
    /\ output.value = 180 * One

(* ------------------------------ unmount ------------------------------- *)
\* C30: once ARView is unmounted, stopTracking has been called on the hand and
\* on the face session and neither holds a frame loop, whatever state each
\* session was in.
C30_UnmountStopsBoth ==
    ~mounted =>
        \A s \in active :
            /\ lastOp[s] = "unmount"
            /\ loops[s] = {}
            /\ cameraRef[s] = 0 /\ animationFrameRef[s] = 0

C30_Witness ==
    /\ ~mounted /\ ~crashed
    /\ pre[Needed].loops # {} /\ pre[Needed].isDetecting
    /\ initPc[Unneeded] # "ok"

(* ------------------- requestAnimationFrame hand session ---------------- *)
LandmarkerSession == "landmarker"

FrameOps == {"skip", "results", "frameFail"}

\* C31: in the requestAnimationFrame hand session the pending frame requests
\* are exactly the one animationFrameRef names: one after every run of
\* processFrame (processed, skipped or failed) and after startTracking, none
\* after stopTracking.
C31_OnePendingRequest ==
    LandmarkerSession \in active =>
        /\ loops[LandmarkerSession] =
              IF animationFrameRef[LandmarkerSession] = 0 THEN {}
              ELSE {animationFrameRef[LandmarkerSession]}
        /\ lastOp[LandmarkerSession] \in FrameOps \cup {"start", "restart"} =>
              Cardinality(loops[LandmarkerSession]) = 1
        /\ lastOp[LandmarkerSession] = "stop" => loops[LandmarkerSession] = {}

C31_Witness ==
    /\ LandmarkerSession \in active
    /\ lastOp[LandmarkerSession] = "skip"
    /\ prevOp[LandmarkerSession] = "frameFail"
    /\ loops[LandmarkerSession] = {animationFrameRef[LandmarkerSession]}

\* C32: a frame of the requestAnimationFrame hand session that finds the video
\* not ready is skipped: detections, isDetecting and error stay as they were
\* and a next frame request is pending.
C32_SkipLeavesState ==
    (LandmarkerSession \in active /\ lastOp[LandmarkerSession] = "skip") =>
        /\ detections[LandmarkerSession] = pre[LandmarkerSession].detections
        /\ isDetecting[LandmarkerSession] = pre[LandmarkerSession].isDetecting
        /\ error[LandmarkerSession] = pre[LandmarkerSession].error
        /\ pre[LandmarkerSession].loops # {}
        /\ loops[LandmarkerSession] # {}

C32_Witness ==
    /\ LandmarkerSession \in active
    /\ lastOp[LandmarkerSession] = "skip"
    /\ Len(detections[LandmarkerSession]) > 0
    /\ isDetecting[LandmarkerSession]

(* ------------------------------- camera ------------------------------- *)
\* C33: a completed startCamera leaves isLoading false; after success stream is
\* set, hasPermission is true and error is null, also when an earlier attempt
\* had failed; after failure error is a message and hasPermission is false;
\* error is null while a request runs.
C33_StartCameraOutcome ==
    /\ (mounted /\ camera.pc = "settled") =>
          /\ ~camera.isLoading
          /\ \/ camera.error = NoError /\ camera.hasPermission /\ camera.stream
             \/ camera.error # NoError /\ ~camera.hasPermission
    /\ (mounted /\ camera.pc = "requesting") =>
          (camera.error = NoError /\ camera.isLoading)

C33_Witness ==
    /\ mounted /\ camera.pc = "settled"
    /\ camera.leaked
    /\ camera.error = NoError /\ camera.hasPermission /\ camera.stream

\* C36: once the camera component is unmounted and no startCamera call is
\* pending, no stream that was acquired has live tracks.
C36_StreamsReleased ==
    (~mounted /\ camera.pc # "requesting") => (~camera.tracks /\ ~camera.leaked)

(* ------------------------------ earrings ------------------------------ *)
\* C38: the left and the right earring transform always carry the same visible
\* flag and, when visible, the same scale and rotation 0, so showing both
\* earrings on the left flag never shows a right earring that is not visible.
C38_EarringFlagsAgree ==
    /\ overlays["leftEarring"].visible = overlays["rightEarring"].visible
    /\ overlays["leftEarring"].visible =>
          /\ overlays["leftEarring"].scale = overlays["rightEarring"].scale
          /\ overlays["leftEarring"].rotation = 0
          /\ overlays["rightEarring"].rotation = 0

\* both earrings were placed and were hidden together when the face was lost
C38_Witness ==
    /\ product.type = "earring"
    /\ lastEffect = "hidden"
    /\ ~overlays["leftEarring"].visible /\ ~overlays["rightEarring"].visible
    /\ overlays["leftEarring"].x # 0 /\ overlays["rightEarring"].x # 0

(* -------------------------------- App --------------------------------- *)
\* C39: ARView is shown only with a selected product; while it stays mounted
\* the product does not change; starting AR without a selection changes
\* nothing; the selection changes only while the selector is shown; going back
\* keeps the selection; the transforms of the other jewelry types keep their
\* initial value, hidden.
C39_ProductFixedWhileMounted ==
    /\ [](mounted => product \in products)
    /\ [](mounted =>
            \A k \in Slots \ SlotsOf(product.type) : overlays[k] = InitialTransform)
    /\ [][/\ mounted => product' = product
          /\ product = NoProduct => ~mounted'
          /\ product' # product => (~mounted /\ ~mounted')]_vars

\* a necklace is tried on after a camera retry: its overlay is placed, the ring's
\* transform is still the initial one
C39_Witness ==
    /\ mounted /\ product.type = "necklace"
    /\ camera.leaked /\ camera.pc = "settled" /\ camera.error = NoError
    /\ lastEffect = "placed" /\ overlays["necklace"].visible
    /\ overlays["ring"] = InitialTransform

(* --------------------------- landmarker release ----------------------- *)
\* C37: once the HandLandmarker hook is unmounted and its initialization has
\* completed, no landmarker it created is open.
C37_LandmarkerClosed ==
    (LandmarkerSession \in active /\ ~mounted /\ initPc[LandmarkerSession] # "pending")
        => modelRef[LandmarkerSession] # "set"

(* ----------------------- video-ready notification --------------------- *)
\* C34: when the session the product needs has initialized and the camera
\* video is ready, in either order, the session eventually has a live
\* frame-feeding loop (or the view is left).
C34_EventuallyTracking ==
    (mounted /\ initPc[Needed] = "ok" /\ camera.hasPermission)
        ~> (loops[Needed] # {} \/ ~mounted)

C34_Witness ==
    /\ mounted /\ initPc[Needed] = "ok" /\ camera.hasPermission
    /\ lastOp[Needed] = "start"
    /\ loops[Needed] # {}

\* C35: a call of handleVideoReady does not schedule CameraFeed's video-ready
\* effect again, so one video-ready event leads to a bounded number of
\* startTracking calls.
C35_NotificationSettles ==
    [][(\E s \in Sessions : handleVideoReady(s)) => ~notifyPending']_vars
====
